---- MODULE Spec2Model ----
(***************************************************************************)
(* A model of pycall's CallFile (src/pycall/callfile.py): the rendering of *)
(* the call file directives (_buildfile, contents) and the delivery of the *)
(* rendered file to the Asterisk spool directory (_writefile, run).        *)
(*                                                                         *)
(* Python values are tagged records, so that None, strings, integers and   *)
(* booleans stay distinguishable; strings are TLA+ strings, so that        *)
(* string concatenation and '%s' formatting are computed and not assumed.  *)
(*                                                                         *)
(* _buildfile reads self.channel, self.application, self.data,             *)
(* self.context, self.extension, self.priority, self.callerid,             *)
(* self.wait_time, self.max_retries, self.retry_time and self.account:     *)
(* the model takes them as attributes of the object, an absent one being   *)
(* None.  path.basename (line 175) is taken as the final component of a    *)
(* path, as os.path.basename computes it.                                  *)
(***************************************************************************)
EXTENDS Integers, Sequences, FiniteSets, TLC

VARIABLES
    self,      \* the CallFile object's attributes, as _buildfile and run read them
    time,      \* run's `time` argument
    pc,        \* position of the call in progress
    cf,        \* run: the list _buildfile returned
    fname,     \* run: the temporary file's path (None before mkstemp)
    fopen,     \* _writefile: TRUE while the temporary file's handle is open
    wi,        \* _writefile: index of the next line of cf to write
    pwd,       \* run: the passwd entry getpwnam returned (None before)
    fs,        \* the filesystem: path -> [content, owner, atime, mtime]
    fs0,       \* the filesystem when the call started
    ops,       \* the calls made so far on the filesystem, the user database and
               \* the clock, in order; a call that raised is logged as "<call>:failed"
    stamp,     \* run: the timestamp mktime returned (None before)
    err,       \* the exception that left the call ("none" if none did)
    ret        \* the value the call returned (None if it has not returned)

vars == <<self, time, pc, cf, fname, fopen, wi, pwd, fs, fs0, ops, stamp, err, ret>>

(***************************************************************************)
(* Bounds of the model.                                                    *)
(***************************************************************************)
MaxSetVars == 2      \* entries of the set_var mapping
NumTmpNames == 2     \* names mkstemp may generate
MaxTime == 2         \* scheduled times, in seconds after the epoch

(***************************************************************************)
(* Python values.                                                          *)
(***************************************************************************)
None == [none |-> TRUE]
Str(s) == [str |-> s]
Num(n) == [int |-> n]
Bool(b) == [bool |-> b]
\* A datetime: whole seconds since the epoch (local time) and microseconds.
DateTime(s, us) == [sec |-> s, usec |-> us]

IsNone(v) == "none" \in DOMAIN v
IsStr(v) == "str" \in DOMAIN v
IsNum(v) == "int" \in DOMAIN v
IsBool(v) == "bool" \in DOMAIN v
IsList(v) == "list" \in DOMAIN v
IsDateTime(v) == "sec" \in DOMAIN v

\* A dict is the list of its items, in the order items() yields them.
Dict(items) == [list |-> items]

\* Python's truth value of an object, as `if x:` and `x and y` and `x or y` test it.
Truthy(v) ==
    IF IsNone(v) THEN FALSE
    ELSE IF IsStr(v) THEN v.str # ""
    ELSE IF IsNum(v) THEN v.int # 0
    ELSE IF IsBool(v) THEN v.bool
    ELSE IF IsList(v) THEN v.list # <<>>
    ELSE TRUE

\* '%s' % v
Format(v) ==
    IF IsStr(v) THEN v.str
    ELSE IF IsNum(v) THEN ToString(v.int)
    ELSE IF IsBool(v) THEN (IF v.bool THEN "True" ELSE "False")
    ELSE "None"

(***************************************************************************)
(* CallFile._is_valid and CallFile._buildfile.  A call's outcome is a      *)
(* record: exc is the exception raised ("none" when the call returned) and *)
(* cf the list returned.                                                   *)
(***************************************************************************)
Raise(e) == [exc |-> e, cf |-> <<>>]
Return(lines) == [exc |-> "none", cf |-> lines]

\* 'literal' + v: a str concatenates only with a str.
CanAdd(v) == IsStr(v)

_is_valid(o) == TRUE

\* ActionLines with the branches swapped: a complete context action wins over an
\* application.  C5 must tell this variant from the code.
ActionLines_ContextFirst(o) ==
    IF Truthy(o.context) /\ Truthy(o.extension) /\ Truthy(o.priority)
    THEN IF CanAdd(o.context) /\ CanAdd(o.extension) /\ CanAdd(o.priority)
         THEN Return(<<"Context: " \o o.context.str,
                       "Extension: " \o o.extension.str,
                       "Priority: " \o o.priority.str>>)
         ELSE Raise("TypeError")
    ELSE IF Truthy(o.application)
    THEN IF CanAdd(o.application) /\ CanAdd(o.data)
         THEN Return(<<"Application: " \o o.application.str,
                       "Data: " \o o.data.str>>)
         ELSE Raise("TypeError")
    ELSE Raise("UnknownError")

\* The action block: the if / elif / else of _buildfile.
ActionLines(o) ==
    IF Truthy(o.application)
    THEN IF CanAdd(o.application) /\ CanAdd(o.data)
         THEN Return(<<"Application: " \o o.application.str,
                       "Data: " \o o.data.str>>)
         ELSE Raise("TypeError")
    ELSE IF Truthy(o.context) /\ Truthy(o.extension) /\ Truthy(o.priority)
    THEN IF CanAdd(o.context) /\ CanAdd(o.extension) /\ CanAdd(o.priority)
         THEN Return(<<"Context: " \o o.context.str,
                       "Extension: " \o o.extension.str,
                       "Priority: " \o o.priority.str>>)
         ELSE Raise("TypeError")
    ELSE Raise("UnknownError")

\* for var, value in self.set_var.items(): cf.append('Set: %s=%s' % (var, value))
SetLines(o) ==
    IF Truthy(o.set_var)
    THEN [i \in 1..Len(o.set_var.list) |->
            "Set: " \o Format(o.set_var.list[i][1]) \o "=" \o Format(o.set_var.list[i][2])]
    ELSE <<>>

CalleridLines(o) == IF Truthy(o.callerid) THEN <<"Callerid: " \o Format(o.callerid)>> ELSE <<>>
WaitTimeLines(o) == IF Truthy(o.wait_time) THEN <<"WaitTime: " \o Format(o.wait_time)>> ELSE <<>>
MaxretriesLines(o) == IF Truthy(o.max_retries) THEN <<"Maxretries: " \o Format(o.max_retries)>> ELSE <<>>
RetryTimeLines(o) == IF Truthy(o.retry_time) THEN <<"RetryTime: " \o Format(o.retry_time)>> ELSE <<>>
AccountLines(o) == IF Truthy(o.account) THEN <<"Account: " \o Format(o.account)>> ELSE <<>>
ArchiveLines(o) == IF Truthy(o.archive) THEN <<"Archive: yes">> ELSE <<>>

\* The appends after the action block, in the order _buildfile makes them.
OptionLines(o) ==
    SetLines(o) \o CalleridLines(o) \o WaitTimeLines(o) \o MaxretriesLines(o)
        \o RetryTimeLines(o) \o AccountLines(o) \o ArchiveLines(o)

_buildfile(o) ==
    IF ~_is_valid(o) THEN Raise("UnknownError")
    ELSE IF ~CanAdd(o.channel) THEN Raise("TypeError")
    ELSE LET action == ActionLines(o) IN
         IF action.exc # "none" THEN action
         ELSE Return(<<"Channel: " \o o.channel.str>> \o action.cf \o OptionLines(o))

\* '\n'.join(lines)
RECURSIVE Join(_)
Join(lines) ==
    IF lines = <<>> THEN ""
    ELSE IF Len(lines) = 1 THEN lines[1]
    ELSE lines[1] \o "\n" \o Join(Tail(lines))

\* The property CallFile.contents.
contents(o) ==
    LET b == _buildfile(o) IN
    IF b.exc # "none" THEN [exc |-> b.exc, value |-> None]
    ELSE [exc |-> "none", value |-> Str(Join(b.cf))]

(***************************************************************************)
(* The objects of the model.                                               *)
(***************************************************************************)
\* set_var: no mapping, or a mapping of up to MaxSetVars variables.
SetVarItems(n) == [i \in 1..n |-> <<Str("VAR" \o ToString(i)), Str(ToString(i))>>]
SetVarValues == {None} \cup {Dict(SetVarItems(n)) : n \in 0..MaxSetVars}

\* The spool directory __init__ stores: the default's path, with and without a
\* trailing separator.  (`spool_dir or DEFAULT_SPOOL_DIR` with no spool_dir
\* given reads a name that is no global: no object is constructed then.)
SpoolDirValues == {Str("/var/spool/asterisk/outgoing"), Str("/var/spool/asterisk/outgoing/")}

\* The objects the rendering is checked on.
RenderObjects ==
    [ channel     : {None, Str(""), Str("SIP/1234")},
      application : {None, Str(""), Str("Playback")},
      data        : {None, Str(""), Str("hello-world")},
      context     : {None, Str("default")},
      extension   : {Str(""), Str("100")},
      priority    : {Str(""), Str("1"), Num(1)},
      set_var     : SetVarValues,
      callerid    : {None, Str("Bob <555>")},
      wait_time   : {None, Num(30)},
      max_retries : {None, Num(0), Num(2)},
      retry_time  : {None, Num(60)},
      account     : {None, Str("acct")},
      archive     : {None, Bool(FALSE), Bool(TRUE)},
      user        : {None},
      tmpdir      : {None},
      spool_dir   : {Str("/var/spool/asterisk/outgoing/")} ]

\* The objects the delivery is checked on.
RunObjects ==
    [ channel     : {None, Str(""), Str("SIP/1234")},
      application : {None, Str("Playback")},
      data        : {Str("hello-world")},
      context     : {None, Str("default")},
      extension   : {Str("100")},
      priority    : {Str("1")},
      set_var     : {None},
      callerid    : {None},
      wait_time   : {None},
      max_retries : {None},
      retry_time  : {None},
      account     : {None},
      archive     : {None, Bool(TRUE)},
      user        : {None, Str("asterisk"), Str("ghost")},
      tmpdir      : {None, Str("/work")},
      spool_dir   : SpoolDirValues ]

\* run's time argument: none, or a datetime.
TimeValues == {None} \cup {DateTime(s, us) : s \in 1..MaxTime, us \in {0, 500000}}

(***************************************************************************)
(* The filesystem and the user database.                                   *)
(***************************************************************************)
\* The directories that exist.
Dirs == {"/", "/tmp", "/work", "/var/spool/asterisk", "/var/spool/asterisk/outgoing"}

\* The user and group the process runs as, and the clock when a file is created.
ProcessOwner == <<0, 0>>
NewFile == [content |-> "", owner |-> ProcessOwner, atime |-> 0, mtime |-> 0]

\* A call file spooled earlier.
OldPath == "/var/spool/asterisk/outgoing/old.call"
OldFile == [content |-> "Channel: SIP/old\n", owner |-> ProcessOwner, atime |-> 0, mtime |-> 0]
InitialFilesystems == {<<>>, OldPath :> OldFile}

\* The index of the last "/" of p[1..i], 0 if there is none.
RECURSIVE LastSep(_, _)
LastSep(p, i) ==
    IF i = 0 THEN 0
    ELSE IF SubSeq(p, i, i) = "/" THEN i
    ELSE LastSep(p, i - 1)

\* p without its trailing "/"s.
RECURSIVE RStripSep(_)
RStripSep(p) ==
    IF p # "" /\ SubSeq(p, Len(p), Len(p)) = "/"
    THEN RStripSep(SubSeq(p, 1, Len(p) - 1))
    ELSE p

\* os.path.basename: what follows the last "/".
Basename(p) == SubSeq(p, LastSep(p, Len(p)) + 1, Len(p))

\* os.path.dirname: what precedes the last "/", without trailing "/"s unless it is the root.
Dirname(p) ==
    LET head == SubSeq(p, 1, LastSep(p, Len(p))) IN
    IF RStripSep(head) = "" THEN head ELSE RStripSep(head)

\* os.path.join(dir, name)
PathJoin(dir, name) ==
    IF dir # "" /\ SubSeq(dir, Len(dir), Len(dir)) = "/" THEN dir \o name
    ELSE dir \o "/" \o name

\* The names mkstemp(suffix='.call') may generate.
TmpNames == {"tmp" \o ToString(i) \o ".call" : i \in 1..NumTmpNames}

\* tempfile.gettempdir()
DefaultTmpDir == "/tmp"

\* The passwd database: getpwnam(name) is the entry, or None where it raises KeyError.
getpwnam(name) ==
    IF name = Str("asterisk")
    THEN [list |-> <<"asterisk", "x", 100, 101, "Asterisk", "/var/lib/asterisk", "/bin/sh">>]
    ELSE None

\* mktime(time.timetuple()): the timetuple has whole seconds only.
mktime(t) == t.sec

Remove(f, p) == [q \in DOMAIN f \ {p} |-> f[q]]

(***************************************************************************)
(* The state after construction: no call made yet.                         *)
(***************************************************************************)
NoCall ==
    /\ pc = "init"
    /\ cf = <<>>
    /\ fname = None
    /\ fopen = FALSE
    /\ wi = 1
    /\ pwd = None
    /\ ops = <<>>
    /\ stamp = None
    /\ err = "none"
    /\ ret = None

Init ==
    /\ self \in RunObjects
    /\ time \in TimeValues
    /\ fs \in InitialFilesystems
    /\ fs0 = fs
    /\ NoCall

InitRender ==
    /\ self \in RenderObjects
    /\ time = None
    /\ fs = <<>>
    /\ fs0 = fs
    /\ NoCall

(***************************************************************************)
(* Calls of _buildfile and of the contents property.                       *)
(***************************************************************************)
CallBuildfile ==
    /\ pc = "init"
    /\ LET b == _buildfile(self) IN
        /\ cf' = b.cf
        /\ err' = b.exc
        /\ ret' = IF b.exc = "none" THEN [list |-> b.cf] ELSE None
        /\ pc' = IF b.exc = "none" THEN "returned" ELSE "raised"
    /\ UNCHANGED <<self, time, fname, fopen, wi, pwd, fs, fs0, ops, stamp>>

CallContents ==
    /\ pc = "init"
    /\ LET c == contents(self) IN
        /\ err' = c.exc
        /\ ret' = c.value
        /\ pc' = IF c.exc = "none" THEN "returned" ELSE "raised"
    /\ UNCHANGED <<self, time, cf, fname, fopen, wi, pwd, fs, fs0, ops, stamp>>

NextRender == CallBuildfile \/ CallContents

SpecRender == InitRender /\ [][NextRender]_vars

(***************************************************************************)
(* CallFile.run, one step per call it makes.                               *)
(***************************************************************************)
\* Line 150: the argument self._buildfile() is evaluated before _writefile is entered.
RunBuildfile ==
    /\ pc = "init"
    /\ LET b == _buildfile(self) IN
        /\ cf' = b.cf
        /\ err' = b.exc
        /\ pc' = IF b.exc = "none" THEN "mkstemp" ELSE "raised"
    /\ UNCHANGED <<self, time, fname, fopen, wi, pwd, fs, fs0, ops, stamp, ret>>

\* The directory mkstemp creates the file in (lines 125-128).
MkstempDir == IF Truthy(self.tmpdir) THEN self.tmpdir.str ELSE DefaultTmpDir

\* _writefile, mkstemp: a new, empty file under a name not in use, opened; or OSError.
WritefileMkstemp ==
    /\ pc = "mkstemp"
    /\ \/ /\ MkstempDir \in Dirs
          /\ ops' = Append(ops, "mkstemp")
          /\ \E name \in TmpNames :
                /\ PathJoin(MkstempDir, name) \notin DOMAIN fs
                /\ fname' = Str(PathJoin(MkstempDir, name))
                /\ fs' = (PathJoin(MkstempDir, name) :> NewFile) @@ fs
          /\ fopen' = TRUE
          /\ pc' = "write"
          /\ UNCHANGED err
       \/ /\ ops' = Append(ops, "mkstemp:failed")
          /\ err' = "OSError"
          /\ pc' = "raised"
          /\ UNCHANGED <<fname, fs, fopen>>
    /\ UNCHANGED <<self, time, cf, wi, pwd, fs0, stamp, ret>>

\* f.write(line+'\n')
WriteLine(file, line) == [file EXCEPT !.content = @ \o line \o "\n"]

\* _writefile, the loop: one line written; or IOError, which closes the file (the
\* with statement) and leaves run.
WritefileWrite ==
    /\ pc = "write"
    /\ wi <= Len(cf)
    /\ \/ /\ ops' = Append(ops, "write")
          /\ fs' = [fs EXCEPT ![fname.str] = WriteLine(@, cf[wi])]
          /\ wi' = wi + 1
          /\ UNCHANGED <<pc, err, fopen>>
       \/ /\ ops' = Append(ops, "write:failed")
          /\ err' = "IOError"
          /\ pc' = "raised"
          /\ fopen' = FALSE
          /\ UNCHANGED <<fs, wi>>
    /\ UNCHANGED <<self, time, cf, fname, pwd, fs0, stamp, ret>>

\* WritefileClose followed at once by the move, the ownership and timestamp
\* steps left out.  C1 must tell this variant from the code.
WritefileClose_SkipToMove ==
    /\ pc = "write"
    /\ wi > Len(cf)
    /\ ops' = Append(ops, "close")
    /\ fopen' = FALSE
    /\ pc' = "move"
    /\ UNCHANGED <<self, time, cf, fname, wi, pwd, fs, fs0, stamp, err, ret>>

\* _writefile, the end of the with statement: the file is closed, the path returned.
WritefileClose ==
    /\ pc = "write"
    /\ wi > Len(cf)
    /\ ops' = Append(ops, "close")
    /\ fopen' = FALSE
    /\ pc' = "user"
    /\ UNCHANGED <<self, time, cf, fname, wi, pwd, fs, fs0, stamp, err, ret>>

\* RunGetpwnam with the failed lookup swallowed: the delivery goes on without an
\* ownership change.  C6 must tell this variant from the code.
RunGetpwnam_IgnoreUnknown ==
    /\ pc = "user"
    /\ IF ~Truthy(self.user)
       THEN /\ pc' = "time"
            /\ UNCHANGED <<pwd, ops, err>>
       ELSE IF getpwnam(self.user) = None
            THEN /\ ops' = Append(ops, "getpwnam:failed")
                 /\ pc' = "time"
                 /\ UNCHANGED <<pwd, err>>
            ELSE /\ ops' = Append(ops, "getpwnam")
                 /\ pwd' = getpwnam(self.user)
                 /\ pc' = "chown"
                 /\ UNCHANGED err
    /\ UNCHANGED <<self, time, cf, fname, fopen, wi, fs, fs0, stamp, ret>>

\* Lines 152-156: no user, no ownership change; else getpwnam, whose KeyError the
\* outer except turns into NoUserError.
RunGetpwnam ==
    /\ pc = "user"
    /\ IF ~Truthy(self.user)
       THEN /\ pc' = "time"
            /\ UNCHANGED <<pwd, ops, err>>
       ELSE IF getpwnam(self.user) = None
            THEN /\ ops' = Append(ops, "getpwnam:failed")
                 /\ err' = "NoUserError"
                 /\ pc' = "raised"
                 /\ UNCHANGED pwd
            ELSE /\ ops' = Append(ops, "getpwnam")
                 /\ pwd' = getpwnam(self.user)
                 /\ pc' = "chown"
                 /\ UNCHANGED err
    /\ UNCHANGED <<self, time, cf, fname, fopen, wi, fs, fs0, stamp, ret>>

\* Lines 155-163: chown(fname, pwd[2], pwd[3]).  Its failure raises
\* NoUserPermissionError inside the outer try, whose bare except raises NoUserError.
RunChown ==
    /\ pc = "chown"
    /\ \/ /\ ops' = Append(ops, "chown")
          /\ fs' = [fs EXCEPT ![fname.str].owner = <<pwd.list[3], pwd.list[4]>>]
          /\ pc' = "time"
          /\ UNCHANGED err
       \/ /\ ops' = Append(ops, "chown:failed")
          /\ err' = "NoUserError"
          /\ pc' = "raised"
          /\ UNCHANGED fs
    /\ UNCHANGED <<self, time, cf, fname, fopen, wi, pwd, fs0, stamp, ret>>

\* RunUtime with the failures of mktime and utime raised to the caller instead of
\* swallowed.  C9 must tell this variant from the code.
RunUtime_Fatal ==
    /\ pc = "time"
    /\ IF ~IsDateTime(time)
       THEN /\ pc' = "move"
            /\ UNCHANGED <<fs, ops, stamp, err>>
       ELSE \/ /\ ops' = Append(ops, "mktime:failed")
               /\ err' = "OverflowError"
               /\ pc' = "raised"
               /\ UNCHANGED <<fs, stamp>>
            \/ /\ stamp' = Num(mktime(time))
               /\ \/ /\ ops' = ops \o <<"mktime", "utime">>
                     /\ fs' = [fs EXCEPT ![fname.str].atime = mktime(time),
                                         ![fname.str].mtime = mktime(time)]
                     /\ pc' = "move"
                     /\ UNCHANGED err
                  \/ /\ ops' = ops \o <<"mktime", "utime:failed">>
                     /\ err' = "OSError"
                     /\ pc' = "raised"
                     /\ UNCHANGED fs
    /\ UNCHANGED <<self, time, cf, fname, fopen, wi, pwd, fs0, ret>>

\* Lines 168-172: the timestamp, every failure swallowed.  Without a datetime,
\* time.timetuple() raises before utime is called.  run rebinds its local `time`
\* to the timestamp; the model keeps the argument in time and the timestamp in stamp.
RunUtime ==
    /\ pc = "time"
    /\ pc' = "move"
    /\ IF ~IsDateTime(time)
       THEN UNCHANGED <<fs, ops, stamp>>
       ELSE \/ /\ ops' = Append(ops, "mktime:failed")   \* mktime raises OverflowError
               /\ UNCHANGED <<fs, stamp>>
            \/ /\ stamp' = Num(mktime(time))
               /\ \/ /\ ops' = ops \o <<"mktime", "utime">>
                     /\ fs' = [fs EXCEPT ![fname.str].atime = mktime(time),
                                         ![fname.str].mtime = mktime(time)]
                  \/ /\ ops' = ops \o <<"mktime", "utime:failed">>   \* utime raises OSError
                     /\ UNCHANGED fs
    /\ UNCHANGED <<self, time, cf, fname, fopen, wi, pwd, fs0, err, ret>>

\* The destination run gives move (line 175).
MoveDst == self.spool_dir.str \o Basename(fname.str)

\* RunMove with a failed move cleaned up: the temporary file is removed before
\* the error is raised.  C8 must tell this variant from the code.
RunMove_Cleanup ==
    /\ pc = "move"
    /\ \/ /\ Dirname(MoveDst) \in Dirs
          /\ ops' = Append(ops, "move")
          /\ fs' = (MoveDst :> fs[fname.str]) @@ Remove(fs, fname.str)
          /\ ret' = Bool(TRUE)
          /\ pc' = "returned"
          /\ UNCHANGED err
       \/ /\ ops' = Append(ops, "move:failed")
          /\ err' = "NoSpoolPermissionError"
          /\ pc' = "raised"
          /\ fs' = Remove(fs, fname.str)
          /\ UNCHANGED ret
    /\ UNCHANGED <<self, time, cf, fname, fopen, wi, pwd, fs0, stamp>>

\* Lines 174-179: move, then return True; any failure raises NoSpoolPermissionError.
\* A failed move changes nothing.
RunMove ==
    /\ pc = "move"
    /\ \/ /\ Dirname(MoveDst) \in Dirs
          /\ ops' = Append(ops, "move")
          /\ fs' = (MoveDst :> fs[fname.str]) @@ Remove(fs, fname.str)
          /\ ret' = Bool(TRUE)
          /\ pc' = "returned"
          /\ UNCHANGED err
       \/ /\ ops' = Append(ops, "move:failed")
          /\ err' = "NoSpoolPermissionError"
          /\ pc' = "raised"
          /\ UNCHANGED <<fs, ret>>
    /\ UNCHANGED <<self, time, cf, fname, fopen, wi, pwd, fs0, stamp>>

Next ==
    \/ RunBuildfile
    \/ WritefileMkstemp
    \/ WritefileWrite
    \/ WritefileClose
    \/ RunGetpwnam
    \/ RunChown
    \/ RunUtime
    \/ RunMove

Spec == Init /\ [][Next]_vars

(***************************************************************************)
(* Vocabulary of the properties.                                           *)
(***************************************************************************)
Range(seq) == {seq[i] : i \in DOMAIN seq}
StartsWith(str, prefix) ==
    Len(str) >= Len(prefix) /\ SubSeq(str, 1, Len(prefix)) = prefix
Count(seq, x) == Cardinality({i \in DOMAIN seq : seq[i] = x})
CountPrefix(lines, prefix) == Cardinality({i \in DOMAIN lines : StartsWith(lines[i], prefix)})

\* Call c was made, whatever came of it.
Called(c) == c \in Range(ops) \/ (c \o ":failed") \in Range(ops)
TimesCalled(c) == Count(ops, c) + Count(ops, c \o ":failed")

\* The step of a delivery attempt a logged call belongs to:
\* 1 the temporary file, 2 ownership, 3 timestamp, 4 move.
StepOf(op) ==
    IF op \in {"mkstemp", "mkstemp:failed", "write", "write:failed", "close"} THEN 1
    ELSE IF op \in {"getpwnam", "getpwnam:failed", "chown", "chown:failed"} THEN 2
    ELSE IF op \in {"mktime", "mktime:failed", "utime", "utime:failed"} THEN 3
    ELSE 4

\* The text of a file holding the given lines, each followed by a line terminator.
RECURSIVE FileText(_)
FileText(lines) ==
    IF lines = <<>> THEN "" ELSE lines[1] \o "\n" \o FileText(Tail(lines))

\* The files that exist now, did not when the call started, and are not the
\* temporary file at its temporary location: the published files.
Published == {p \in DOMAIN fs \ DOMAIN fs0 : fname = None \/ p # fname.str}

\* The uid and gid of the user to spool as.
SpoolOwner == <<getpwnam(self.user).list[3], getpwnam(self.user).list[4]>>

\* The request's validity, in the specification's terms.
EmptyChannel(o) == o.channel = None \/ o.channel = Str("")
NonEmpty(v) == v # None /\ v # Str("")
CompleteAction(o) ==
    \/ NonEmpty(o.application)
    \/ NonEmpty(o.context) /\ NonEmpty(o.extension) /\ NonEmpty(o.priority)

(***************************************************************************)
(* C1.  In every delivery attempt the steps happen in the order temporary  *)
(* file written and closed, ownership, timestamp, move, each call of a     *)
(* step other than the line writes made at most once; and a file is        *)
(* published only once its content is fully written, its handle closed,    *)
(* the ownership applied (or skipped for want of a user) and the timestamp *)
(* step over (or skipped for want of a time).                              *)
(***************************************************************************)
C1_StepOrder ==
    /\ \A i, j \in DOMAIN ops : i < j => StepOf(ops[i]) <= StepOf(ops[j])
    /\ \A c \in {"mkstemp", "close", "getpwnam", "chown", "mktime", "utime", "move"} :
            TimesCalled(c) <= 1
    /\ \A i, j \in DOMAIN ops : (i < j /\ ops[i] = "close") => ops[j] \notin {"mkstemp", "write"}
    /\ \A p \in Published :
        /\ ops[Len(ops)] = "move"
        /\ "close" \in Range(ops) /\ ~fopen
        /\ fs[p].content = FileText(cf)
        /\ IF Truthy(self.user)
           THEN "chown" \in Range(ops) /\ fs[p].owner = SpoolOwner
           ELSE ~Called("getpwnam") /\ ~Called("chown")
        /\ IF IsDateTime(time) THEN Called("mktime") ELSE ~Called("mktime") /\ ~Called("utime")

\* A delivery that went through all four steps.
C1_Witness ==
    /\ pc = "returned"
    /\ Published # {}
    /\ "chown" \in Range(ops)
    /\ "utime" \in Range(ops)
    /\ Len(cf) >= 3

(***************************************************************************)
(* C2.  When run returns True, the file is directly inside the configured  *)
(* spool directory (given with or without a trailing separator) under the  *)
(* temporary file's base name, holds the rendered lines each followed by a *)
(* line terminator, and is gone from its temporary location.               *)
(***************************************************************************)
C2_SpooledInsideSpoolDir ==
    ret = Bool(TRUE) =>
        LET dir == RStripSep(self.spool_dir.str)
            dst == PathJoin(dir, Basename(fname.str))
        IN  /\ dst \in DOMAIN fs
            /\ Dirname(dst) = dir
            /\ fs[dst].content = FileText(cf)
            /\ fname.str \notin DOMAIN fs

(***************************************************************************)
(* C3.  A request that fails validation (its channel empty or absent, or   *)
(* no complete action) makes run fail before any filesystem side effect:   *)
(* no call on the filesystem or the user database is made, the filesystem  *)
(* stays as it was, and run does not go past the rendering.                *)
(***************************************************************************)
C3_InvalidRequestNoSideEffect ==
    (EmptyChannel(self) \/ ~CompleteAction(self)) =>
        /\ ops = <<>>
        /\ fs = fs0
        /\ pc \in {"init", "raised"}

(***************************************************************************)
(* C4.  The outcome of rendering: an empty or absent channel raises the    *)
(* missing-channel error (NoChannelDefinedError in the docstring of        *)
(* _is_valid, MissingChannelError in the specification), whatever the      *)
(* action; a non-empty channel with no complete action raises              *)
(* NoActionDefinedError; every other request raises no validation error.   *)
(***************************************************************************)
C4_ValidationOutcome ==
    pc # "init" =>
        IF EmptyChannel(self)
        THEN err \in {"NoChannelDefinedError", "MissingChannelError"}
        ELSE IF ~CompleteAction(self)
        THEN err = "NoActionDefinedError"
        ELSE err \notin {"NoChannelDefinedError", "MissingChannelError",
                         "NoActionDefinedError", "UnknownError"}

(***************************************************************************)
(* C5.  A request that renders has 'Channel: <channel>' as line 1,         *)
(* followed at once by exactly one action block: Application and Data      *)
(* when an application is present (then no Context:, Extension: or         *)
(* Priority: line anywhere), otherwise Context, Extension and Priority in  *)
(* that order (then no Application: or Data: line anywhere).  The          *)
(* application wins when both are present.                                 *)
(***************************************************************************)
C5_ChannelThenOneActionBlock ==
    (pc = "returned" /\ IsList(ret)) =>
        /\ Len(cf) >= 3
        /\ cf[1] = "Channel: " \o self.channel.str
        /\ CountPrefix(cf, "Channel: ") = 1
        /\ IF NonEmpty(self.application)
           THEN /\ cf[2] = "Application: " \o self.application.str
                /\ cf[3] = "Data: " \o self.data.str
                /\ CountPrefix(cf, "Application: ") = 1
                /\ CountPrefix(cf, "Data: ") = 1
                /\ CountPrefix(cf, "Context: ") = 0
                /\ CountPrefix(cf, "Extension: ") = 0
                /\ CountPrefix(cf, "Priority: ") = 0
           ELSE /\ Len(cf) >= 4
                /\ cf[2] = "Context: " \o self.context.str
                /\ cf[3] = "Extension: " \o self.extension.str
                /\ cf[4] = "Priority: " \o self.priority.str
                /\ CountPrefix(cf, "Context: ") = 1
                /\ CountPrefix(cf, "Extension: ") = 1
                /\ CountPrefix(cf, "Priority: ") = 1
                /\ CountPrefix(cf, "Application: ") = 0
                /\ CountPrefix(cf, "Data: ") = 0

\* Rendered with both an application and a complete context action present.
C5_Witness ==
    /\ pc = "returned" /\ IsList(ret)
    /\ NonEmpty(self.application)
    /\ NonEmpty(self.context) /\ NonEmpty(self.extension) /\ NonEmpty(self.priority)
    /\ self.set_var # None /\ Len(self.set_var.list) = MaxSetVars

\* Rendered through the context branch.
C5_WitnessContext ==
    /\ pc = "returned" /\ IsList(ret)
    /\ ~NonEmpty(self.application)
    /\ cf[2] = "Context: default"

(***************************************************************************)
(* C6.  With a spooling user that does not resolve, no chown, utime or     *)
(* move is ever made and run never returns; once the lookup has failed,    *)
(* run has raised NoUserError (the specification's UnknownUserError),      *)
(* nothing is published, and the temporary file is at its temporary        *)
(* location with the rendered content.                                     *)
(***************************************************************************)
C6_UnknownUserStopsDelivery ==
    (Truthy(self.user) /\ getpwnam(self.user) = None) =>
        /\ ~Called("chown") /\ ~Called("mktime") /\ ~Called("utime") /\ ~Called("move")
        /\ pc # "returned" /\ ret = None
        /\ Published = {}
        /\ \A p \in DOMAIN fs0 : p \in DOMAIN fs /\ fs[p] = fs0[p]
        /\ "close" \in Range(ops) =>
             /\ Called("getpwnam") => (pc = "raised" /\ err = "NoUserError")
             /\ fname.str \in DOMAIN fs
             /\ fs[fname.str] = [NewFile EXCEPT !.content = FileText(cf)]

\* The lookup of an unknown user has failed.
C6_Witness ==
    /\ self.user = Str("ghost")
    /\ "getpwnam:failed" \in Range(ops)
    /\ pc = "raised"
    /\ Len(cf) >= 3

(***************************************************************************)
(* C7.  When the user resolves and the ownership change is rejected, run   *)
(* raises NoUserPermissionError (the specification's PermissionsError), a  *)
(* kind other than the NoUserError of a failed lookup, and makes no move.  *)
(***************************************************************************)
C7_ChownRejectedRaisesPermissionsError ==
    "chown:failed" \in Range(ops) =>
        /\ pc = "raised"
        /\ err = "NoUserPermissionError"
        /\ ~Called("move")
        /\ Published = {}

(***************************************************************************)
(* C8.  When the move fails, run raises NoSpoolPermissionError (the        *)
(* specification's SpoolError) and does not return; the temporary file is  *)
(* still at its temporary location with the rendered content, the owner    *)
(* and the times it had before the move; nothing is published; the move    *)
(* was called once.                                                        *)
(***************************************************************************)
C8_FailedMoveLeavesTempFile ==
    "move:failed" \in Range(ops) =>
        /\ pc = "raised"
        /\ err = "NoSpoolPermissionError"
        /\ ret = None
        /\ TimesCalled("move") = 1
        /\ ops[Len(ops)] = "move:failed"
        /\ Published = {}
        /\ fname.str \in DOMAIN fs
        /\ fs[fname.str].content = FileText(cf)
        /\ fs[fname.str].owner = IF Truthy(self.user) THEN SpoolOwner ELSE ProcessOwner
        /\ fs[fname.str].mtime = IF "utime" \in Range(ops) THEN mktime(time) ELSE NewFile.mtime
        /\ fs[fname.str].atime = IF "utime" \in Range(ops) THEN mktime(time) ELSE NewFile.atime

\* A move that failed after ownership and time were applied.
C8_Witness ==
    /\ "move:failed" \in Range(ops)
    /\ "chown" \in Range(ops)
    /\ "utime" \in Range(ops)

(***************************************************************************)
(* C9.  The timestamp step never blocks delivery.  Once the temporary file *)
(* is closed, run ends only by the move (made, or failed with              *)
(* NoSpoolPermissionError) or by a failed ownership step (NoUserError): a  *)
(* finished run whose ownership step did not fail has called move, also    *)
(* when mktime or utime failed.  Without a time, the file keeps the times  *)
(* it was created with; with a time and a successful utime, its access and *)
(* modification times are both that time's timestamp, set before the move. *)
(***************************************************************************)
C9_TimestampNeverBlocks ==
    LET path == IF pc = "returned" THEN MoveDst ELSE fname.str
        ownershipFailed == "getpwnam:failed" \in Range(ops) \/ "chown:failed" \in Range(ops)
    IN
    "close" \in Range(ops) =>
        /\ err \in {"none", "NoUserError", "NoSpoolPermissionError"}
        /\ (pc \in {"returned", "raised"} /\ ~ownershipFailed) => Called("move")
        /\ (pc = "move" \/ Called("move")) =>
             /\ ~IsDateTime(time) =>
                  /\ ~Called("mktime") /\ ~Called("utime")
                  /\ fs[path].atime = NewFile.atime /\ fs[path].mtime = NewFile.mtime
             /\ "utime" \in Range(ops) =>
                  /\ IsDateTime(time)
                  /\ fs[path].atime = time.sec /\ fs[path].mtime = time.sec
             /\ (IsDateTime(time) /\ "utime" \notin Range(ops)) =>
                  /\ "mktime:failed" \in Range(ops) \/ "utime:failed" \in Range(ops)
                  /\ fs[path].atime = NewFile.atime /\ fs[path].mtime = NewFile.mtime

\* A delivery that succeeded although utime failed.
C9_Witness ==
    /\ pc = "returned"
    /\ "utime:failed" \in Range(ops)
    /\ MoveDst \in DOMAIN fs

(***************************************************************************)
(* C10.  A request that renders has each optional line exactly once if its *)
(* field is present and not at all otherwise: Callerid, WaitTime,          *)
(* Maxretries (also for max_retries = 0), RetryTime, Account, and          *)
(* 'Archive: yes' if and only if archive is true; these lines come after   *)
(* every Set: line, in that order.                                         *)
(***************************************************************************)
OptionalKeys == <<"Callerid: ", "WaitTime: ", "Maxretries: ", "RetryTime: ", "Account: ", "Archive: ">>
OptionalLine(o, k) ==
    CASE k = 1 -> IF o.callerid # None THEN <<"Callerid: " \o Format(o.callerid)>> ELSE <<>>
      [] k = 2 -> IF o.wait_time # None THEN <<"WaitTime: " \o Format(o.wait_time)>> ELSE <<>>
      [] k = 3 -> IF o.max_retries # None THEN <<"Maxretries: " \o Format(o.max_retries)>> ELSE <<>>
      [] k = 4 -> IF o.retry_time # None THEN <<"RetryTime: " \o Format(o.retry_time)>> ELSE <<>>
      [] k = 5 -> IF o.account # None THEN <<"Account: " \o Format(o.account)>> ELSE <<>>
      [] k = 6 -> IF o.archive = Bool(TRUE) THEN <<"Archive: yes">> ELSE <<>>

C10_OptionalLinesIffPresent ==
    (pc = "returned" /\ IsList(ret)) =>
        /\ \A k \in DOMAIN OptionalKeys :
             {i \in DOMAIN cf : StartsWith(cf[i], OptionalKeys[k])}
                 = {i \in DOMAIN cf : <<cf[i]>> = OptionalLine(self, k)}
        /\ \A k \in DOMAIN OptionalKeys :
             CountPrefix(cf, OptionalKeys[k]) = Len(OptionalLine(self, k))
        /\ \A i, j \in DOMAIN cf :
             (StartsWith(cf[i], "Set: ")
                /\ \E k \in DOMAIN OptionalKeys : StartsWith(cf[j], OptionalKeys[k])) => i < j
        /\ \A i, j \in DOMAIN cf : \A k, l \in DOMAIN OptionalKeys :
             (StartsWith(cf[i], OptionalKeys[k]) /\ StartsWith(cf[j], OptionalKeys[l]) /\ k < l)
                => i < j

====
